---------------------------- MODULE Spec2Model ----------------------------
(* Campus access control and attendance admission of the EAS backend:     *)
(* Event.save / Event.can_user_attend (apps/events/models.py),            *)
(* Attendance.save with its unique_together constraint and the audit log  *)
(* (apps/attendance/models.py), campus resolution (apps/accounts,         *)
(* apps/shared/middleware.py, apps/campus/managers.py, apps/campus/api)   *)
(* and the setup command, over a small database.                          *)
EXTENDS Integers, FiniteSets, Sequences, TLC

(**************************************************************************)
(* Bounds of the model                                                    *)
(**************************************************************************)
NumCampuses == 2      \* campus primary keys 1..NumCampuses
NumUsers == 2         \* user primary keys 1..NumUsers
MaxEvents == 2        \* events that can be created
MaxCap == 1           \* largest max_participants an event is created with
NumProcs == 2         \* concurrent request handlers
NewCampuses == 1      \* campuses that can be added to the first NumCampuses
MaxLogs == 2          \* rows the audit log can hold

(**************************************************************************)
(* Program constants                                                      *)
(**************************************************************************)
Null == -1                 \* Python None / SQL NULL of a nullable column
WindowMinutes == 30        \* timedelta(minutes=30) in Event.save
DefaultWindowMinutes == 30 \* CampusConfiguration.attendance_window_minutes default
DefaultExpiryHours == 24   \* CampusConfiguration.qr_code_expiry_hours default
\* Scores (FloatField) are counted in hundredths
MinScore == 0              \* MinValueValidator(0.0)
MaxScore == 100            \* MaxValueValidator(1.0)

Campuses == 1..NumCampuses
Users == 1..NumUsers
EventIds == 1..MaxEvents
Procs == 1..NumProcs

ROLE_CHOICES == {"student", "organizer", "campus_admin", "super_admin"}
\* The accounts of the model: user u has home campus ((u - 1) mod
\* NumCampuses) + 1 and the u-th role of this list (cyclically)
FixtureRoles == <<"student", "campus_admin", "organizer", "super_admin">>
STATUS_CHOICES == {"present", "absent", "late", "excused"}

\* The reasons Event.can_user_attend returns
NotForCampus == "Event not available for your campus"
AtCapacity == "Event is at capacity"
AlreadyMarked == "Already marked attendance for this event"
WindowClosed == "Attendance window is closed"
CanAttend == "Can attend"

\* Event schedule used by the requests (minutes on one time line):
\* date + start_time, date + end_time, and the window bounds a client may
\* send with the event instead of leaving them to Event.save.
EventStart == 60
EventEnd == EventStart + 60
PresetStart == EventStart - WindowMinutes + 1
PresetEnd == EventStart + WindowMinutes - 1
\* Instants at which the clock is read: the bounds of the windows above,
\* one unit on either side of them, and one instant well inside.
Instants ==
    {EventStart - WindowMinutes - 1, EventStart - WindowMinutes, PresetStart,
     EventStart, PresetEnd, EventStart + WindowMinutes, EventStart + WindowMinutes + 1}

VARIABLES
    campuses,     \* campus id -> Campus row with its configuration (DOMAIN = the campuses)
    users,        \* user id -> [campus_id, role, accessible_campus_ids]
    events,       \* event id -> Event row (DOMAIN = the saved events)
    attendance,   \* the rows of table 'attendance'
    now,          \* timezone.now()
    sub,          \* request handler -> its submission in progress
    saved,        \* the Event instance last handed to Event.save, as given
    call,         \* the last campus-resolution call and what it returned
    logs,         \* the rows of table 'attendance_logs'
    validations   \* the rows of table 'attendance_validations'

vars == <<campuses, users, events, attendance, now, sub, saved, call, logs, validations>>

(**************************************************************************)
(* Event (apps/events/models.py)                                          *)
(**************************************************************************)
\* qr_data = f"https://easuniversity.site/attend/{self.id}"
QrData(id) == <<"https://easuniversity.site/attend/", id>>

\* Variant: the payload carries the moment it was generated
generate_qr_code_Timestamped(ev) ==
    [ev EXCEPT !.qr_code_data = QrData(ev.id) \o <<now>>, !.qr_code = TRUE]

\* Event.generate_qr_code on a row that has its id (the primary key has a
\* default, so `if not self.id` never returns early); the image itself is
\* kept as the flag qr_code
generate_qr_code(ev) ==
    [ev EXCEPT !.qr_code_data = QrData(ev.id), !.qr_code = TRUE]

\* Variant: every save derives the window again from the start time
EventSaved_Recompute(ev) ==
    LET w == [ev EXCEPT !.attendance_window_start = ev.start - WindowMinutes,
                        !.attendance_window_end = ev.start + WindowMinutes]
    IN  IF ~w.qr_code THEN generate_qr_code(w) ELSE w

\* Event.save: the window is computed only when attendance_window_start is
\* empty (date and start_time are required fields, always set); both
\* bounds are then written, both around the start time. The QR code is
\* generated when the row has none.
EventSaved(ev) ==
    LET w == IF ev.attendance_window_start = Null
             THEN [ev EXCEPT !.attendance_window_start = ev.start - WindowMinutes,
                             !.attendance_window_end = ev.start + WindowMinutes]
             ELSE ev
    IN  IF ~w.qr_code THEN generate_qr_code(w) ELSE w

\* Event.attendance_count: rows of the event with status 'present'
attendance_count(e) ==
    Cardinality({r \in attendance : r.event = e /\ r.status = "present"})

\* Variant: the bounds compared strictly
can_mark_attendance_Exclusive(e) ==
    IF events[e].attendance_window_start = Null \/ events[e].attendance_window_end = Null
    THEN FALSE
    ELSE events[e].attendance_window_start < now /\ now < events[e].attendance_window_end

\* Variant: a missing bound taken as no bound on that side
can_mark_attendance_OpenEnded(e) ==
    /\ events[e].attendance_window_start # Null => events[e].attendance_window_start <= now
    /\ events[e].attendance_window_end # Null => now <= events[e].attendance_window_end

\* Event.can_mark_attendance, reading the clock
can_mark_attendance(e) ==
    IF events[e].attendance_window_start = Null \/ events[e].attendance_window_end = Null
    THEN FALSE
    ELSE events[e].attendance_window_start <= now /\ now <= events[e].attendance_window_end

\* Variant: the hosting campus always eligible for its own event
CampusGateFails_HostAllowed(e, u) ==
    \/ ~events[e].is_multi_campus /\ users[u].campus_id # events[e].campus_id
    \/ /\ events[e].is_multi_campus
       /\ users[u].campus_id \notin events[e].allowed_campuses
       /\ users[u].campus_id # events[e].campus_id

\* The four gates of Event.can_user_attend, each TRUE when it rejects
CampusGateFails(e, u) ==
    \/ ~events[e].is_multi_campus /\ users[u].campus_id # events[e].campus_id
    \/ events[e].is_multi_campus /\ users[u].campus_id \notin events[e].allowed_campuses

\* `self.max_participants and ...`: None and 0 are both falsy
Truthy(n) == n # Null /\ n # 0

CapacityGateFails(e) ==
    Truthy(events[e].max_participants) /\ attendance_count(e) >= events[e].max_participants

DuplicateGateFails(e, u) ==
    \E r \in attendance : r.event = e /\ r.user = u

WindowGateFails(e) == ~can_mark_attendance(e)

\* Variant: capacity looked at before the campus
can_user_attend_CapacityFirst(e, u) ==
    IF CapacityGateFails(e) THEN [ok |-> FALSE, reason |-> AtCapacity]
    ELSE IF CampusGateFails(e, u) THEN [ok |-> FALSE, reason |-> NotForCampus]
    ELSE IF DuplicateGateFails(e, u) THEN [ok |-> FALSE, reason |-> AlreadyMarked]
    ELSE IF WindowGateFails(e) THEN [ok |-> FALSE, reason |-> WindowClosed]
    ELSE [ok |-> TRUE, reason |-> CanAttend]

\* Variant: the duplicate check before the capacity check
can_user_attend_DuplicateFirst(e, u) ==
    IF CampusGateFails(e, u) THEN [ok |-> FALSE, reason |-> NotForCampus]
    ELSE IF DuplicateGateFails(e, u) THEN [ok |-> FALSE, reason |-> AlreadyMarked]
    ELSE IF CapacityGateFails(e) THEN [ok |-> FALSE, reason |-> AtCapacity]
    ELSE IF WindowGateFails(e) THEN [ok |-> FALSE, reason |-> WindowClosed]
    ELSE [ok |-> TRUE, reason |-> CanAttend]

can_user_attend(e, u) ==
    IF CampusGateFails(e, u) THEN [ok |-> FALSE, reason |-> NotForCampus]
    ELSE IF CapacityGateFails(e) THEN [ok |-> FALSE, reason |-> AtCapacity]
    ELSE IF DuplicateGateFails(e, u) THEN [ok |-> FALSE, reason |-> AlreadyMarked]
    ELSE IF WindowGateFails(e) THEN [ok |-> FALSE, reason |-> WindowClosed]
    ELSE [ok |-> TRUE, reason |-> CanAttend]

(**************************************************************************)
(* Initial state                                                          *)
(**************************************************************************)
NoSave == [id |-> 0, attendance_window_start |-> Null, attendance_window_end |-> Null]
Idle == [pc |-> "idle", user |-> 0, event |-> 0, outcome |-> "none"]
NoCall == [op |-> "none"]

\* The campuses with their configuration rows: every campus active, and
\* campus c configured with attendance_window_minutes = 30 * c (the
\* default on campus 1, changed by its administrators elsewhere) and
\* with qr_code_expiry_hours = c
CampusRows ==
    [c \in Campuses |->
        [is_active |-> TRUE, attendance_window_minutes |-> DefaultWindowMinutes * c,
         qr_code_expiry_hours |-> c]]

\* The accounts
UserRows ==
    [u \in Users |->
        [campus_id |-> ((u - 1) % NumCampuses) + 1,
         role |-> FixtureRoles[((u - 1) % 4) + 1],
         accessible_campus_ids |-> {}]]

Init ==
    /\ campuses = CampusRows
    /\ users = UserRows
    /\ events = <<>>
    /\ attendance = {}
    /\ now = 0
    /\ sub = [p \in Procs |-> Idle]
    /\ saved = NoSave
    /\ call = NoCall
    /\ logs = {}
    /\ validations = {}

\* Event.objects.create(...): a new row goes through Event.save
EventCreate(c, multi, allowed, cap, ws, we) ==
    /\ Len(events) < MaxEvents
    /\ LET id == Len(events) + 1
           ev == [id |-> id, campus_id |-> c, is_multi_campus |-> multi,
                  allowed_campuses |-> allowed, max_participants |-> cap,
                  start |-> EventStart, end |-> EventEnd,
                  attendance_window_start |-> ws, attendance_window_end |-> we,
                  qr_code |-> FALSE, qr_code_data |-> <<>>, created_at |-> now,
                  requires_selfie |-> TRUE, requires_signature |-> TRUE]
       IN  /\ events' = Append(events, EventSaved(ev))
           /\ saved' = [id |-> id, attendance_window_start |-> ws,
                        attendance_window_end |-> we]
    /\ UNCHANGED <<campuses, users, attendance, now, sub, call, logs, validations>>

\* The clock advances to a later instant
Tick(t) ==
    /\ t > now
    /\ now' = t
    /\ UNCHANGED <<campuses, users, events, attendance, sub, saved, call, logs, validations>>

\* An existing event is loaded, its start time set to st, and saved again
EventResave(e, st) ==
    /\ e \in DOMAIN events
    /\ events' = [events EXCEPT ![e] = EventSaved([events[e] EXCEPT !.start = st])]
    /\ saved' = [id |-> e,
                 attendance_window_start |-> events[e].attendance_window_start,
                 attendance_window_end |-> events[e].attendance_window_end]
    /\ UNCHANGED <<campuses, users, attendance, now, sub, call, logs, validations>>

\* event.generate_qr_code() called on an existing event: the payload is
\* computed again and written with QuerySet.update
GenerateQr(e) ==
    /\ e \in DOMAIN events
    /\ events' = [events EXCEPT ![e] = generate_qr_code(events[e])]
    /\ UNCHANGED <<campuses, users, attendance, now, sub, saved, call, logs, validations>>

(**************************************************************************)
(* Attendance (apps/attendance/models.py)                                 *)
(**************************************************************************)
\* Variant: the flag left as the caller set it
AttendanceSaved_FlagAsGiven(rec) ==
    [rec EXCEPT
        !.campus_id = IF rec.campus_id = Null THEN events[rec.event].campus_id
                      ELSE rec.campus_id]

\* Attendance.save before the row is written: campus from the event when
\* none is given, the cross-campus flag recomputed. (marked_at and the
\* arrival_time derived from it are read by no operation modelled here and
\* are not part of the rows.)
AttendanceSaved(rec) ==
    [rec EXCEPT
        !.campus_id = IF rec.campus_id = Null THEN events[rec.event].campus_id
                      ELSE rec.campus_id,
        !.cross_campus_attendance = (users[rec.user].campus_id # events[rec.event].campus_id)]

UniqueViolation_NoConstraint(e, u) == FALSE

\* unique_together = ['event', 'user']: the INSERT is refused when a row
\* of the pair exists
UniqueViolation(e, u) ==
    \E r \in attendance : r.event = e /\ r.user = u

\* The primary key of the next row: one that no row of the table carries
\* (the smallest such, where the table's sequence gives a larger one)
NextId(rows) ==
    CHOOSE i \in 1..(Cardinality(rows) + 1) :
        /\ \A r \in rows : r.id # i
        /\ \A j \in 1..(i - 1) : \E r \in rows : r.id = j

\* A new Attendance instance with the field defaults (no selfie, no
\* signature, no score)
NewAttendance(e, u, st, by) ==
    [id |-> NextId(attendance), event |-> e, user |-> u,
     campus_id |-> Null, status |-> st, cross_campus_attendance |-> FALSE,
     marked_by |-> by, selfie_image |-> Null, signature_image |-> Null,
     verification_score |-> Null]

\* A submission, first step: the handler asks Event.can_user_attend
SubmitCheck(p, u, e) ==
    /\ sub[p].pc = "idle"
    /\ e \in DOMAIN events
    /\ LET res == can_user_attend(e, u)
       IN  sub' = [sub EXCEPT ![p] =
                     IF res.ok
                     THEN [pc |-> "checked", user |-> u, event |-> e, outcome |-> "none"]
                     ELSE [pc |-> "done", user |-> u, event |-> e, outcome |-> res.reason]]
    /\ UNCHANGED <<campuses, users, events, attendance, now, saved, call, logs, validations>>

\* A submission, second step: Attendance(...).save(); the database raises
\* IntegrityError on the unique constraint and nothing catches it
SubmitInsert(p) ==
    /\ sub[p].pc = "checked"
    /\ IF UniqueViolation(sub[p].event, sub[p].user)
       THEN /\ sub' = [sub EXCEPT ![p].pc = "done", ![p].outcome = "IntegrityError"]
            /\ UNCHANGED attendance
       ELSE /\ attendance' = attendance \cup
                   {AttendanceSaved(NewAttendance(sub[p].event, sub[p].user, "present", Null))}
            /\ sub' = [sub EXCEPT ![p].pc = "done", ![p].outcome = "created"]
    /\ UNCHANGED <<campuses, users, events, now, saved, call, logs, validations>>

IsAdmin(a) == users[a].role \in {"campus_admin", "super_admin"}

\* An administrator creates a row directly (no can_user_attend); the
\* unique constraint still applies to the INSERT, and a refused INSERT
\* changes nothing
AdminForceCreate(a, u, e, st) ==
    /\ IsAdmin(a)
    /\ e \in DOMAIN events
    /\ ~UniqueViolation(e, u)
    /\ attendance' = attendance \cup {AttendanceSaved(NewAttendance(e, u, st, a))}
    /\ UNCHANGED <<campuses, users, events, now, sub, saved, call, logs, validations>>

\* An administrator changes the status of an existing row and saves it
AdminForceUpdate(a, r, st) ==
    /\ IsAdmin(a)
    /\ r \in attendance
    /\ st # r.status
    /\ attendance' = (attendance \ {r}) \cup
                        {AttendanceSaved([r EXCEPT !.status = st, !.marked_by = a])}
    /\ UNCHANGED <<campuses, users, events, now, sub, saved, call, logs, validations>>

\* The handler has answered and takes the next request
SubmitReturn(p) ==
    /\ sub[p].pc = "done"
    /\ sub' = [sub EXCEPT ![p] = Idle]
    /\ UNCHANGED <<campuses, users, events, attendance, now, saved, call, logs, validations>>

(**************************************************************************)
(* Campus access control (apps/accounts/models.py, apps/shared/           *)
(* middleware.py, apps/campus/managers.py, apps/campus/api/views.py)      *)
(**************************************************************************)
\* Campus.objects.filter(is_active=True).values_list('id', flat=True)
ActiveCampusIds == {c \in DOMAIN campuses : campuses[c].is_active}

\* Variant: the explicit list honoured whatever the role
get_accessible_campus_ids_AnyRole(u) ==
    IF users[u].role = "super_admin" THEN ActiveCampusIds
    ELSE IF users[u].accessible_campus_ids # {} THEN users[u].accessible_campus_ids
    ELSE {users[u].campus_id}

\* Variant: the home campus always part of a campus admin's set
get_accessible_campus_ids_WithHome(u) ==
    IF users[u].role = "super_admin" THEN ActiveCampusIds
    ELSE IF users[u].role = "campus_admin" /\ users[u].accessible_campus_ids # {}
    THEN users[u].accessible_campus_ids \cup {users[u].campus_id}
    ELSE {users[u].campus_id}

\* User.get_accessible_campus_ids (the list taken as the set of its ids;
\* an empty list is falsy)
get_accessible_campus_ids(u) ==
    IF users[u].role = "super_admin" THEN ActiveCampusIds
    ELSE IF users[u].role = "campus_admin" /\ users[u].accessible_campus_ids # {}
    THEN users[u].accessible_campus_ids
    ELSE {users[u].campus_id}

\* User.can_access_campus
can_access_campus(u, c) == c \in get_accessible_campus_ids(u)

\* The X-Campus-ID header as request.META.get returns it: None when the
\* request carries none, else its text
NoHeader == [present |-> FALSE, text |-> ""]
Header(t) == [present |-> TRUE, text |-> t]
\* `if campus_override`: None and the empty string are falsy
HeaderTruthy(h) == h.present /\ h.text # ""

\* int(campus_override): the number a decimal text denotes; any other text
\* raises ValueError
Digits == <<"0", "1", "2", "3", "4", "5", "6", "7", "8", "9">>
str(n) == Digits[n + 1]
RaisesValueError(t) == \A i \in DOMAIN Digits : Digits[i] # t
int(t) == (CHOOSE i \in DOMAIN Digits : Digits[i] = t) - 1

\* Variant: the override is looked up by id alone
OverrideMatches_AnyCampus(u, id) == id \in DOMAIN campuses

\* Campus.objects.get(id=int(campus_override),
\*                    id__in=request.user.get_accessible_campus_ids())
\* finds a row
OverrideMatches(u, id) ==
    /\ id \in DOMAIN campuses
    /\ id \in get_accessible_campus_ids(u)

\* Variant: the handler of the override catches Campus.DoesNotExist only
Caught_DoesNotExistOnly == {"DoesNotExist"}

\* except (Campus.DoesNotExist, ValueError): pass
Caught == {"DoesNotExist", "ValueError"}

\* CampusMiddleware.process_request for the authenticated user u (Null:
\* an unauthenticated request) and header h. Campus.objects.get raises
\* DoesNotExist when no campus has the id or the id is not in the list;
\* both exceptions are caught and leave the home campus.
process_request(u, h) ==
    IF u = Null THEN [campus |-> Null, accessible_campuses |-> {}, raised |-> "none"]
    ELSE LET accessible_ids == get_accessible_campus_ids(u)
             tried ==
                 /\ HeaderTruthy(h)
                 /\ users[u].role \in {"campus_admin", "super_admin"}
             \* what the body of the try statement raises: int() on a text
             \* that is no integer, Campus.objects.get on no matching row
             thrown ==
                 IF ~tried THEN "none"
                 ELSE IF RaisesValueError(h.text) THEN "ValueError"
                 ELSE IF ~OverrideMatches(u, int(h.text)) THEN "DoesNotExist"
                 ELSE "none"
             honoured == tried /\ thrown = "none"
         IN  [campus |-> IF honoured THEN int(h.text) ELSE users[u].campus_id,
              accessible_campuses |->
                  {c \in DOMAIN campuses : c \in accessible_ids /\ campuses[c].is_active},
              raised |-> IF thrown \in Caught THEN "none" ELSE thrown]

\* A queryset of a campus-aware table: all rows, or those of one campus
Unfiltered == [filtered |-> FALSE, campus_id |-> Null]
ForCampus(c) == [filtered |-> TRUE, campus_id |-> c]

\* CampusAwareQuerySet.for_campus
for_campus(c) == ForCampus(c)

\* CampusAwareQuerySet.for_user_campus
for_user_campus(u) ==
    IF users[u].role = "super_admin" THEN Unfiltered
    ELSE ForCampus(users[u].campus_id)

\* Variant: any requested campus honoured, for every role
accessible_to_user_Unchecked(u, campus_id) ==
    IF Truthy(campus_id) THEN ForCampus(campus_id)
    ELSE IF users[u].role = "super_admin" THEN Unfiltered
    ELSE ForCampus(users[u].campus_id)

\* CampusAwareQuerySet.accessible_to_user (campus_id None or an integer;
\* `if campus_id` is false for None and 0)
accessible_to_user(u, campus_id) ==
    IF users[u].role = "super_admin"
    THEN IF Truthy(campus_id) THEN ForCampus(campus_id) ELSE Unfiltered
    ELSE IF Truthy(campus_id) /\ campus_id \in get_accessible_campus_ids(u)
         THEN ForCampus(campus_id)
         ELSE ForCampus(users[u].campus_id)

\* The rows a queryset over the events table returns
Rows(q) == {e \in DOMAIN events : ~q.filtered \/ events[e].campus_id = q.campus_id}

\* CampusViewSet.get_queryset, which the list and 'accessible' endpoints
\* serialize: the campus ids returned
get_queryset(u) ==
    IF users[u].role = "super_admin" THEN DOMAIN campuses
    ELSE {c \in DOMAIN campuses : c \in get_accessible_campus_ids(u)}

\* The request is answered: the call and what it returned
ProcessRequest(u, h) ==
    /\ call' = [op |-> "process_request", user |-> u, header |-> h,
                result |-> process_request(u, h)]
    /\ UNCHANGED <<campuses, users, events, attendance, now, sub, saved, logs, validations>>

GetAccessibleCampusIds(u) ==
    /\ call' = [op |-> "get_accessible_campus_ids", user |-> u,
                result |-> get_accessible_campus_ids(u)]
    /\ UNCHANGED <<campuses, users, events, attendance, now, sub, saved, logs, validations>>

AccessibleToUser(u, campus_id) ==
    /\ call' = [op |-> "accessible_to_user", user |-> u, campus_id |-> campus_id,
                result |-> Rows(accessible_to_user(u, campus_id))]
    /\ UNCHANGED <<campuses, users, events, attendance, now, sub, saved, logs, validations>>

ForUserCampus(u) ==
    /\ call' = [op |-> "for_user_campus", user |-> u,
                result |-> Rows(for_user_campus(u))]
    /\ UNCHANGED <<campuses, users, events, attendance, now, sub, saved, logs, validations>>

\* GET /campuses/accessible/
CampusAccessible(u) ==
    /\ call' = [op |-> "accessible", user |-> u, result |-> get_queryset(u)]
    /\ UNCHANGED <<campuses, users, events, attendance, now, sub, saved, logs, validations>>

\* An administrator activates or deactivates a campus
CampusSetActive(c, b) ==
    /\ c \in DOMAIN campuses
    /\ campuses[c].is_active # b
    /\ campuses' = [campuses EXCEPT ![c].is_active = b]
    /\ UNCHANGED <<users, events, attendance, now, sub, saved, call, logs, validations>>

\* A campus is added, with the default configuration row
CampusAdd(c) ==
    /\ c \notin DOMAIN campuses
    /\ campuses' = [d \in DOMAIN campuses \cup {c} |->
                       IF d = c
                       THEN [is_active |-> TRUE,
                             attendance_window_minutes |-> DefaultWindowMinutes,
                             qr_code_expiry_hours |-> DefaultExpiryHours]
                       ELSE campuses[d]]
    /\ UNCHANGED <<users, events, attendance, now, sub, saved, call, logs, validations>>

(**************************************************************************)
(* Audit log and deletions (apps/attendance/models.py,                    *)
(* apps/campus/management/commands/setup_initial_data.py)                 *)
(**************************************************************************)
ACTION_CHOICES == {"marked", "updated", "verified", "rejected", "deleted"}

\* An administrator loads a row, sets its cross-campus flag to some value
\* and saves it
AttendanceEdit(a, r, flag) ==
    /\ IsAdmin(a)
    /\ r \in attendance
    /\ attendance' = (attendance \ {r}) \cup
          {AttendanceSaved([r EXCEPT !.cross_campus_attendance = flag, !.marked_by = a])}
    /\ UNCHANGED <<campuses, users, events, now, sub, saved, call, logs, validations>>

\* AttendanceLog.objects.create(attendance=r, campus=r.campus, ...): a
\* row is added to the audit log
LogWrite(r, action, by) ==
    /\ r \in attendance
    /\ by \in DOMAIN users
    /\ Cardinality(logs) < MaxLogs
    /\ logs' = logs \cup {[id |-> NextId(logs), attendance |-> r.id,
                          campus_id |-> r.campus_id, action |-> action,
                          performed_by |-> by]}
    /\ UNCHANGED <<campuses, users, events, attendance, now, sub, saved, call, validations>>

\* attendance.delete(): on_delete=CASCADE of AttendanceLog.attendance and
\* of AttendanceValidation.attendance deletes the log rows and the
\* validation rows of the record with it
AttendanceDelete(r) ==
    /\ r \in attendance
    /\ attendance' = attendance \ {r}
    /\ logs' = {l \in logs : l.attendance # r.id}
    /\ validations' = {v \in validations : v.attendance # r.id}
    /\ UNCHANGED <<campuses, users, events, now, sub, saved, call>>

\* The tables after the campuses gone are deleted, following on_delete of
\* every foreign key: users, events, attendance rows and log rows of the
\* campuses go (CASCADE), with the attendance rows of those users and
\* events and the log and validation rows of those attendance rows;
\* marked_by and performed_by of the rows that stay are set to NULL where
\* they pointed to a deleted user (SET_NULL). The organizer of an event is
\* an account of the event's campus, so the cascade through
\* Event.organizer removes no further event.
Deleted(gone) ==
    LET usersGone == {u \in DOMAIN users : users[u].campus_id \in gone}
        eventsGone == {e \in DOMAIN events : events[e].campus_id \in gone}
        attGone == {r \in attendance :
                       r.campus_id \in gone \/ r.event \in eventsGone \/ r.user \in usersGone}
        logsGone == {l \in logs :
                        l.campus_id \in gone \/ l.attendance \in {r.id : r \in attGone}}
    IN  [campuses |-> [c \in DOMAIN campuses \ gone |-> campuses[c]],
         users |-> [u \in DOMAIN users \ usersGone |-> users[u]],
         events |-> [e \in DOMAIN events \ eventsGone |-> events[e]],
         attendance |->
             {[r EXCEPT !.marked_by = IF @ \in usersGone THEN Null ELSE @] :
                 r \in attendance \ attGone},
         logs |->
             {[l EXCEPT !.performed_by = IF @ \in usersGone THEN Null ELSE @] :
                 l \in logs \ logsGone},
         validations |->
             {v \in validations : v.attendance \notin {r.id : r \in attGone}}]

\* campus.delete()
CampusDelete(c) ==
    /\ c \in DOMAIN campuses
    /\ LET db == Deleted({c})
       IN  /\ campuses' = db.campuses
           /\ users' = db.users
           /\ events' = db.events
           /\ attendance' = db.attendance
           /\ logs' = db.logs
           /\ validations' = db.validations
    /\ UNCHANGED <<now, sub, saved, call>>

\* The campus row and configuration the setup command creates
SeedCampus ==
    [is_active |-> TRUE, attendance_window_minutes |-> DefaultWindowMinutes,
     qr_code_expiry_hours |-> DefaultExpiryHours]

\* The demo accounts of the setup command (admin, organizer, student), all
\* on the main campus; account u of the model carries the u-th username
DemoRoles == <<"super_admin", "organizer", "student">>
DemoUsers == {u \in Users : u <= Len(DemoRoles)}

\* manage.py setup_initial_data [--clear]: with --clear every campus is
\* deleted (User.objects.all().delete() then finds no user left, each
\* having had a campus); then the campuses and the demo accounts that do
\* not exist are created (get_or_create)
SetupInitialData(clear) ==
    /\ 1 \in Campuses
    /\ LET db == IF clear THEN Deleted(DOMAIN campuses) ELSE Deleted({})
       IN  /\ campuses' = [c \in DOMAIN db.campuses \cup Campuses |->
                              IF c \in DOMAIN db.campuses THEN db.campuses[c]
                              ELSE SeedCampus]
           /\ users' = [u \in DOMAIN db.users \cup DemoUsers |->
                           IF u \in DOMAIN db.users THEN db.users[u]
                           ELSE [campus_id |-> 1, role |-> DemoRoles[u],
                                 accessible_campus_ids |-> {}]]
           /\ events' = db.events
           /\ attendance' = db.attendance
           /\ logs' = db.logs
           /\ validations' = db.validations
    /\ UNCHANGED <<now, sub, saved, call>>

(**************************************************************************)
(* Records saved directly (apps/attendance/models.py)                     *)
(**************************************************************************)
VALIDATION_TYPE_CHOICES ==
    {"gps_distance", "time_window", "image_verification", "duplicate_check"}

\* validators=[MinValueValidator(0.0), MaxValueValidator(1.0)] of
\* verification_score (nullable) and confidence_score: what
\* Model.full_clean would check. Neither Attendance.save nor any other
\* code of the repository calls full_clean.
ScoreValidatorsPass(score) == score = Null \/ (MinScore <= score /\ score <= MaxScore)

\* Attendance.objects.create(event=e, user=u, campus=c, marked_by=a,
\* verification_score=score), c being None or a campus: the new instance
\* goes through Attendance.save; the unique constraint applies
AttendanceCreate(a, u, e, c, score) ==
    /\ e \in DOMAIN events
    /\ c # Null => c \in DOMAIN campuses
    /\ ~UniqueViolation(e, u)
    /\ attendance' = attendance \cup
          {AttendanceSaved([NewAttendance(e, u, "present", a) EXCEPT
                               !.campus_id = c, !.verification_score = score])}
    /\ UNCHANGED <<campuses, users, events, now, sub, saved, call, logs, validations>>

\* AttendanceValidation.objects.create(attendance=r, validation_type=vt,
\* confidence_score=score): Model.save as inherited; unique_together =
\* ['attendance', 'validation_type'] applies
ValidationCreate(r, vt, score) ==
    /\ r \in attendance
    /\ \A v \in validations : ~(v.attendance = r.id /\ v.validation_type = vt)
    /\ validations' = validations \cup
          {[id |-> NextId(validations), attendance |-> r.id, validation_type |-> vt,
            confidence_score |-> score]}
    /\ UNCHANGED <<campuses, users, events, attendance, now, sub, saved, call, logs>>

(**************************************************************************)
(* Specifications                                                         *)
(**************************************************************************)
CapChoices == {Null} \cup (0..MaxCap)
\* The statuses administrators set here (two of STATUS_CHOICES)
AdminStatuses == {s \in STATUS_CHOICES : s \in {"present", "absent"}}

\* Concurrent handlers and administrators on one event with a computed
\* window
Next ==
    \/ \E c \in Campuses, multi \in BOOLEAN, allowed \in SUBSET Campuses,
          cap \in CapChoices :
          /\ ~multi => allowed = {}
          /\ events = <<>>
          /\ EventCreate(c, multi, allowed, cap, Null, Null)
    \/ \E p \in Procs, u \in Users, e \in EventIds : SubmitCheck(p, u, e)
    \/ \E p \in Procs : SubmitInsert(p)
    \/ \E a \in Users, u \in Users, e \in EventIds, st \in AdminStatuses :
          AdminForceCreate(a, u, e, st)
    \/ \E a \in Users, r \in attendance, st \in AdminStatuses : AdminForceUpdate(a, r, st)
    \/ \E t \in Instants : Tick(t)

Spec == Init /\ [][Next]_vars

\* One handler (submissions never interleave) and administrators, on one
\* event of every kind
GateNext ==
    \/ \E c \in Campuses, multi \in BOOLEAN, allowed \in SUBSET Campuses,
          cap \in CapChoices, ws \in {Null, PresetStart}, we \in {Null, PresetEnd} :
          /\ ~multi => allowed = {}
          /\ events = <<>>
          /\ EventCreate(c, multi, allowed, cap, ws, we)
    \/ \E u \in Users, e \in EventIds : SubmitCheck(1, u, e)
    \/ SubmitInsert(1)
    \/ SubmitReturn(1)
    \/ \E a \in Users, u \in Users, e \in EventIds, st \in AdminStatuses :
          AdminForceCreate(a, u, e, st)
    \/ \E a \in Users, r \in attendance, st \in AdminStatuses : AdminForceUpdate(a, r, st)
    \/ \E t \in Instants : Tick(t)

SpecGate == Init /\ [][GateNext]_vars

\* One handler and no administrator on one event: every row comes from a
\* submission
SerialNext ==
    \/ \E c \in Campuses, multi \in BOOLEAN, allowed \in SUBSET Campuses,
          cap \in CapChoices, ws \in {Null, PresetStart}, we \in {Null, PresetEnd} :
          /\ ~multi => allowed = {}
          /\ events = <<>>
          /\ EventCreate(c, multi, allowed, cap, ws, we)
    \/ \E u \in Users, e \in EventIds : SubmitCheck(1, u, e)
    \/ SubmitInsert(1)
    \/ SubmitReturn(1)
    \/ \E t \in Instants : Tick(t)

SpecSerial == Init /\ [][SerialNext]_vars

\* The events table holds a row that did not go through Event.save (a
\* fixture loaded raw, a QuerySet.update): any of its window bounds may be
\* NULL. One handler submits against it.
EventRow(c, multi, allowed, cap, ws, we) ==
    [id |-> 1, campus_id |-> c, is_multi_campus |-> multi,
     allowed_campuses |-> allowed, max_participants |-> cap,
     start |-> EventStart, end |-> EventEnd,
     attendance_window_start |-> ws, attendance_window_end |-> we,
     qr_code |-> TRUE, qr_code_data |-> QrData(1), created_at |-> 0,
     requires_selfie |-> TRUE, requires_signature |-> TRUE]

InitRows ==
    /\ campuses = CampusRows
    /\ users = UserRows
    /\ \E c \in Campuses, multi \in BOOLEAN, cap \in CapChoices,
          ws \in {Null, PresetStart}, we \in {Null, PresetEnd} :
          events = <<EventRow(c, multi, Campuses, cap, ws, we)>>
    /\ attendance = {}
    /\ now = 0
    /\ sub = [p \in Procs |-> Idle]
    /\ saved = NoSave
    /\ call = NoCall
    /\ logs = {}
    /\ validations = {}

RowsNext ==
    \/ \E u \in Users, e \in EventIds : SubmitCheck(1, u, e)
    \/ SubmitInsert(1)
    \/ SubmitReturn(1)
    \/ \E t \in Instants : Tick(t)

SpecRows == InitRows /\ [][RowsNext]_vars

\* Campus resolution. The campuses 1..NumCampuses exist, each with one
\* event; campuses up to NumCampuses + NewCampuses can be added, and any
\* campus activated or deactivated. The account of user 1 is any account
\* the users table can hold: any role, any home campus, any list of
\* campus ids in accessible_campus_ids.
AllCampusIds == 1..(NumCampuses + NewCampuses)
RequestedIds == {Null} \cup (0..(NumCampuses + NewCampuses + 1))
Headers ==
    {NoHeader, Header(""), Header("abc")}
        \cup {Header(str(n)) : n \in 0..(NumCampuses + NewCampuses + 1)}

InitAccess ==
    /\ campuses = CampusRows
    /\ \E c \in Campuses, role \in ROLE_CHOICES, ids \in SUBSET AllCampusIds :
          users = [u \in Users |->
                     IF u = 1
                     THEN [campus_id |-> c, role |-> role, accessible_campus_ids |-> ids]
                     ELSE UserRows[u]]
    /\ events = [c \in Campuses |->
                    [EventRow(c, FALSE, {}, Null, PresetStart, PresetEnd)
                        EXCEPT !.id = c, !.qr_code_data = QrData(c)]]
    /\ attendance = {}
    /\ now = 0
    /\ sub = [p \in Procs |-> Idle]
    /\ saved = NoSave
    /\ call = NoCall
    /\ logs = {}
    /\ validations = {}

AccessNext ==
    \/ \E u \in Users \cup {Null}, h \in Headers : ProcessRequest(u, h)
    \/ \E u \in Users : GetAccessibleCampusIds(u)
    \/ \E u \in Users, campus_id \in RequestedIds : AccessibleToUser(u, campus_id)
    \/ \E u \in Users : ForUserCampus(u)
    \/ \E u \in Users : CampusAccessible(u)
    \/ \E c \in AllCampusIds, b \in BOOLEAN : CampusSetActive(c, b)
    \/ \E c \in AllCampusIds : CampusAdd(c)

SpecAccess == InitAccess /\ [][AccessNext]_vars

\* QR payloads: events of either campus are created at any moment, saved
\* again with another start time and have their QR code generated again,
\* while one handler takes submissions
StartChoices == {EventStart, EventEnd}

QrNext ==
    \/ \E c \in Campuses : EventCreate(c, FALSE, {}, Null, Null, Null)
    \/ \E e \in EventIds, st \in StartChoices : EventResave(e, st)
    \/ \E e \in EventIds : GenerateQr(e)
    \/ \E u \in Users, e \in EventIds : SubmitCheck(1, u, e)
    \/ SubmitInsert(1)
    \/ SubmitReturn(1)
    \/ \E t \in Instants : Tick(t)

SpecQr == Init /\ [][QrNext]_vars

\* Audit log and deletions: one event at a time, records created and
\* edited by the administrators; log rows are written for existing
\* records, records and campuses are deleted, and the setup command runs
\* with and without --clear
AuditActions == {a \in ACTION_CHOICES : a \in {"marked", "deleted"}}

AuditNext ==
    \/ \E c \in DOMAIN campuses, multi \in BOOLEAN :
          /\ events = <<>>
          /\ EventCreate(c, multi, IF multi THEN DOMAIN campuses ELSE {}, Null, Null, Null)
    \/ \E a \in DOMAIN users, u \in DOMAIN users, e \in EventIds :
          AdminForceCreate(a, u, e, "present")
    \/ \E a \in DOMAIN users, r \in attendance, flag \in BOOLEAN : AttendanceEdit(a, r, flag)
    \/ \E r \in attendance, action \in AuditActions, by \in DOMAIN users :
          LogWrite(r, action, by)
    \/ \E r \in attendance : AttendanceDelete(r)
    \/ \E c \in Campuses : CampusDelete(c)
    \/ \E clear \in BOOLEAN : SetupInitialData(clear)

SpecAudit == Init /\ [][AuditNext]_vars

\* Records saved directly: on one event, callers create attendance
\* records giving the campus (or none) and a verification score, and
\* validation rows giving a confidence score
ScoreChoices == {MinScore - 50, MinScore, MaxScore, MaxScore + 50}
RecordValidationTypes == {t \in VALIDATION_TYPE_CHOICES : t = "gps_distance"}

RecordNext ==
    \/ \E c \in Campuses :
          /\ events = <<>>
          /\ EventCreate(c, FALSE, {}, Null, Null, Null)
    \/ \E a \in Users, u \in Users, e \in EventIds, c \in {Null} \cup Campuses,
          score \in {Null} \cup ScoreChoices :
          /\ IsAdmin(a)
          /\ AttendanceCreate(a, u, e, c, score)
    \/ \E r \in attendance, vt \in RecordValidationTypes, score \in ScoreChoices :
          ValidationCreate(r, vt, score)

SpecRecord == Init /\ [][RecordNext]_vars

\* One event created with any combination of given window bounds, then
\* saved again with its start time kept or moved
WindowNext ==
    \/ \E c \in Campuses, ws \in {Null, PresetStart}, we \in {Null, PresetEnd} :
          /\ events = <<>>
          /\ EventCreate(c, FALSE, {}, Null, ws, we)
    \/ \E e \in EventIds, st \in StartChoices : EventResave(e, st)
    \/ \E t \in Instants : Tick(t)

SpecWindow == Init /\ [][WindowNext]_vars

(**************************************************************************)
(* Properties                                                             *)
(**************************************************************************)
Rejected(reason) == [ok |-> FALSE, reason |-> reason]
RowsOf(e, u) == {r \in attendance : r.event = e /\ r.user = u}
\* Handler p has answered a submission of user u for event e with outcome o
Answered(p, u, e, o) ==
    sub[p].pc = "done" /\ sub[p].user = u /\ sub[p].event = e /\ sub[p].outcome = o

\* C1: in every reachable state, whatever submissions and administrative
\* creates and updates have run and however they interleaved, the table
\* holds at most one Attendance row for each (event, user) pair.
C1_OneRowPerEventUser ==
    \A r1, r2 \in attendance :
        (r1.event = r2.event /\ r1.user = r2.user) => r1 = r2

\* A racing INSERT of a pair that already has its row was refused, and the
\* table holds an administrator's row as well.
C1_Witness ==
    /\ \E p \in Procs : sub[p].outcome = "IntegrityError"
                        /\ Cardinality(RowsOf(sub[p].event, sub[p].user)) = 1
    /\ \E r \in attendance : r.marked_by # Null

\* C2: of two submissions of the same (event, user) pair that both passed
\* the pre-check of can_user_attend, one creates the row and the other
\* ends with the AlreadyMarked outcome, never with a raw constraint error.
C2_RaceEndsAlreadyMarked ==
    \A p, q \in Procs :
        ( /\ p # q
          /\ sub[p].pc = "done" /\ sub[q].pc = "done"
          /\ sub[p].event = sub[q].event /\ sub[p].user = sub[q].user
          /\ sub[q].outcome = "created"
          /\ sub[p].outcome \notin {NotForCampus, AtCapacity, WindowClosed} )
        => sub[p].outcome = AlreadyMarked

\* C3: for an event that is not multi-campus and a user of another campus
\* can_user_attend answers "not available for your campus" and nothing
\* else, whatever capacity, rows and window are; a submission ends so.
C3_OtherCampusAlwaysNotForCampus ==
    \A e \in DOMAIN events, u \in Users :
        (~events[e].is_multi_campus /\ users[u].campus_id # events[e].campus_id)
        => /\ can_user_attend(e, u) = Rejected(NotForCampus)
           /\ \A p \in Procs : (sub[p].pc = "done" /\ sub[p].event = e /\ sub[p].user = u)
                               => sub[p].outcome = NotForCampus

\* A user of another campus who has a row for a full single-campus event
\* whose window is closed submitted and was told "not available".
C3_Witness ==
    \E e \in DOMAIN events, u \in Users :
        /\ ~events[e].is_multi_campus /\ users[u].campus_id # events[e].campus_id
        /\ CapacityGateFails(e) /\ DuplicateGateFails(e, u) /\ WindowGateFails(e)
        /\ Answered(1, u, e, NotForCampus)

\* C4: for a multi-campus event a user passes the campus gate exactly when
\* the user's home campus id is in allowed_campuses; the hosting campus
\* gives no eligibility of its own.
C4_MultiCampusByAllowList ==
    \A e \in DOMAIN events, u \in Users :
        events[e].is_multi_campus
        => ( can_user_attend(e, u).reason # NotForCampus
             <=> users[u].campus_id \in events[e].allowed_campuses )

\* A user of the hosting campus, which the allow-list omits, was refused
\* while the window was open and the event had room.
C4_Witness ==
    \E e \in DOMAIN events, u \in Users :
        /\ events[e].is_multi_campus
        /\ users[u].campus_id = events[e].campus_id
        /\ events[e].campus_id \notin events[e].allowed_campuses
        /\ events[e].allowed_campuses # {}
        /\ ~CapacityGateFails(e) /\ ~DuplicateGateFails(e, u) /\ ~WindowGateFails(e)
        /\ Answered(1, u, e, NotForCampus)

\* C5: can_user_attend reports the reason of the first failing gate in the
\* order campus, capacity, duplicate, window.
C5_FirstFailingGate ==
    \A e \in DOMAIN events, u \in Users :
        LET res == can_user_attend(e, u)
        IN  /\ CampusGateFails(e, u) => res = Rejected(NotForCampus)
            /\ (~CampusGateFails(e, u) /\ CapacityGateFails(e))
               => res = Rejected(AtCapacity)
            /\ (~CampusGateFails(e, u) /\ ~CapacityGateFails(e) /\ DuplicateGateFails(e, u))
               => res = Rejected(AlreadyMarked)
            /\ (~CampusGateFails(e, u) /\ ~CapacityGateFails(e) /\ ~DuplicateGateFails(e, u)
                /\ WindowGateFails(e))
               => res = Rejected(WindowClosed)
            /\ (~CampusGateFails(e, u) /\ ~CapacityGateFails(e) /\ ~DuplicateGateFails(e, u)
                /\ ~WindowGateFails(e))
               => res.ok

\* A user who has a row for a full event submitted again and was told the
\* event is at capacity.
C5_Witness ==
    \E e \in DOMAIN events, u \in Users :
        /\ DuplicateGateFails(e, u) /\ CapacityGateFails(e)
        /\ Answered(1, u, e, AtCapacity)

\* C6: when max_participants is set, 0 included, the capacity gate passes
\* exactly when the count of 'present' rows is below it; when it is NULL
\* the gate always passes.
C6_CapacityGateStrict ==
    \A e \in DOMAIN events :
        /\ events[e].max_participants # Null
           => (~CapacityGateFails(e) <=> attendance_count(e) < events[e].max_participants)
        /\ events[e].max_participants = Null => ~CapacityGateFails(e)

\* C7: with submissions that do not interleave, the count of 'present'
\* rows of an event with max_participants = N never exceeds N, and at N an
\* otherwise eligible user is told the event is at capacity.
C7_SerialNeverOverCapacity ==
    \A e \in DOMAIN events :
        events[e].max_participants # Null
        => /\ attendance_count(e) <= events[e].max_participants
           /\ \A u \in Users :
                (attendance_count(e) = events[e].max_participants /\ ~CampusGateFails(e, u))
                => can_user_attend(e, u) = Rejected(AtCapacity)

\* C8: the window check is inclusive on both ends: true at the start, at
\* the end and between them, false one unit before the start and one unit
\* after the end.
C8_WindowInclusive ==
    \A e \in DOMAIN events :
        LET ws == events[e].attendance_window_start
            we == events[e].attendance_window_end
        IN  (ws # Null /\ we # Null /\ ws <= we)
            => /\ now = ws => can_mark_attendance(e)
               /\ now = we => can_mark_attendance(e)
               /\ (ws < now /\ now < we) => can_mark_attendance(e)
               /\ now = ws - 1 => ~can_mark_attendance(e)
               /\ now = we + 1 => ~can_mark_attendance(e)

\* A submission was admitted at the very instant the window opens (the
\* clock never goes back, so its pre-check ran at that instant).
C8_Witness ==
    \E e \in DOMAIN events, u \in Users :
        /\ now = events[e].attendance_window_start
        /\ events[e].attendance_window_end # Null
        /\ Answered(1, u, e, "created")

\* C9: an event that lacks attendance_window_start or attendance_window_end
\* fails the window check at every instant, and a user who passes the
\* earlier gates is told the window is closed.
C9_MissingBoundClosed ==
    \A e \in DOMAIN events :
        (events[e].attendance_window_start = Null \/ events[e].attendance_window_end = Null)
        => /\ ~can_mark_attendance(e)
           /\ \A u \in Users :
                (~CampusGateFails(e, u) /\ ~CapacityGateFails(e) /\ ~DuplicateGateFails(e, u))
                => can_user_attend(e, u) = Rejected(WindowClosed)

\* A submission for an event with an end bound and no start bound was
\* answered "window closed" at an instant before that end.
C9_Witness ==
    \E e \in DOMAIN events, u \in Users :
        /\ events[e].attendance_window_start = Null
        /\ events[e].attendance_window_end # Null
        /\ 0 < now /\ now <= events[e].attendance_window_end
        /\ Answered(1, u, e, WindowClosed)

\* C10: an event first saved without a window gets the window
\* [start - D, end + D], D the attendance_window_minutes of its campus.
C10_WindowFromCampusConfig ==
    (saved.id # 0 /\ saved.attendance_window_start = Null
                  /\ saved.attendance_window_end = Null)
    => LET ev == events[saved.id]
           D == campuses[ev.campus_id].attendance_window_minutes
       IN  /\ ev.attendance_window_start = ev.start - D
           /\ ev.attendance_window_end = ev.end + D


\* C11: for a user whose role is neither campus_admin nor super_admin the
\* resolved accessible set is exactly the home campus, and both resolvers
\* give the home campus as the effective campus, for every value of the
\* override and whatever accessible_campus_ids holds (two requests that
\* differ only in the override resolve alike)
C11_NonAdminPinnedToHome ==
    \A u \in DOMAIN users :
        users[u].role \notin {"campus_admin", "super_admin"} =>
            /\ get_accessible_campus_ids(u) = {users[u].campus_id}
            /\ \A h \in Headers : process_request(u, h).campus = users[u].campus_id
            /\ \A campus_id \in RequestedIds :
                  accessible_to_user(u, campus_id) = ForCampus(users[u].campus_id)

\* An organizer whose accessible_campus_ids lists another active campus
\* sent that campus in the header and was left on the home campus
C11_Witness ==
    /\ call.op = "process_request"
    /\ call.user # Null
    /\ users[call.user].role = "organizer"
    /\ HeaderTruthy(call.header)
    /\ ~RaisesValueError(call.header.text)
    /\ int(call.header.text) \in ActiveCampusIds \ {users[call.user].campus_id}
    /\ int(call.header.text) \in users[call.user].accessible_campus_ids
    /\ call.result.campus = users[call.user].campus_id

\* C12: for a super_admin, get_accessible_campus_ids and the campus list
\* endpoint's get_queryset both return exactly the campuses active at the
\* moment of the call, also after campuses were activated, deactivated or
\* added
C12_SuperAdminSeesActiveCampuses ==
    \A u \in DOMAIN users :
        users[u].role = "super_admin" =>
            /\ get_accessible_campus_ids(u) = ActiveCampusIds
            /\ get_queryset(u) = ActiveCampusIds

\* C13: for a campus_admin, get_accessible_campus_ids returns exactly the
\* explicit accessible_campus_ids when that list is non-empty and exactly
\* the home campus when it is empty; can_access_campus is membership in it
C13_CampusAdminExplicitOrHome ==
    \A u \in DOMAIN users :
        users[u].role = "campus_admin" =>
            LET expected == IF users[u].accessible_campus_ids # {}
                            THEN users[u].accessible_campus_ids
                            ELSE {users[u].campus_id}
            IN  /\ get_accessible_campus_ids(u) = expected
                /\ \A c \in RequestedIds \ {Null} : can_access_campus(u, c) <=> c \in expected

\* A campus admin whose explicit list leaves out the home campus asked
\* for the set and got the list as it is
C13_Witness ==
    /\ call.op = "get_accessible_campus_ids"
    /\ users[call.user].role = "campus_admin"
    /\ users[call.user].accessible_campus_ids # {}
    /\ users[call.user].campus_id \notin users[call.user].accessible_campus_ids
    /\ call.result = users[call.user].accessible_campus_ids

\* C14: in process_request and in accessible_to_user a requested campus
\* becomes the effective campus only if the role is campus_admin or
\* super_admin and the id is in the user's resolved accessible set (for a
\* super_admin the active campuses); otherwise the effective campus is the
\* home campus
C14_OverrideOnlyWhenAccessible ==
    \A u \in DOMAIN users :
        LET home == users[u].campus_id
            Honourable(c) == IsAdmin(u) /\ c \in get_accessible_campus_ids(u)
        IN  /\ \A h \in Headers :
                  LET r == process_request(u, h).campus
                  IN  r # home =>
                          /\ HeaderTruthy(h)
                          /\ ~RaisesValueError(h.text)
                          /\ r = int(h.text)
                          /\ Honourable(r)
            /\ \A campus_id \in RequestedIds :
                  LET q == accessible_to_user(u, campus_id)
                  IN  (q.filtered /\ q.campus_id # home) =>
                          /\ Truthy(campus_id)
                          /\ q.campus_id = campus_id
                          /\ Honourable(campus_id)

ExpiresAt(e) ==
    events[e].created_at + 60 * campuses[events[e].campus_id].qr_code_expiry_hours

\* C16: the QR payload is a function of the event id alone and issuing it
\* again changes nothing: no Event.save and no generate_qr_code on an
\* existing event changes its qr_code_data, and two different events never
\* carry the same payload
C16_QrPayloadStable ==
    [][/\ \A e \in DOMAIN events :
             e \in DOMAIN events' => events'[e].qr_code_data = events[e].qr_code_data
       /\ \A e \in DOMAIN events' : events'[e].qr_code_data = QrData(events'[e].id)
       /\ \A e1, e2 \in DOMAIN events' :
             e1 # e2 => events'[e1].qr_code_data # events'[e2].qr_code_data]_vars

\* Two events exist, the first was saved again with another start time
\* at a later moment than its creation, and the payloads are those of the
\* first save
C16_Witness ==
    /\ Len(events) = 2
    /\ events[1].start # EventStart
    /\ events[1].created_at < now
    /\ events[1].qr_code_data = QrData(1)
    /\ events[2].qr_code_data = QrData(2)

\* C17: once qr_code_expiry_hours have elapsed since the token of an event
\* was issued, the token is rejected: no submission for the event passes
\* admission after that moment
C17_ExpiredTokenRejected ==
    [][\A p \in Procs :
          (sub[p].pc = "idle" /\ sub'[p].pc = "checked") => now < ExpiresAt(sub'[p].event)]_vars


\* C18: after every Attendance.save the record's cross_campus_attendance
\* says whether the user's home campus differs from the event's campus,
\* whatever value the caller had set
C18_CrossCampusFlagRecomputed ==
    [][\A r \in attendance' \ attendance :
          r.cross_campus_attendance =
              (users'[r.user].campus_id # events'[r.event].campus_id)]_vars

\* A record of a user from another campus than the event's, created from
\* an instance with the default FALSE, was saved with the flag TRUE, next
\* to a record of the event's own campus saved with FALSE
C18_Witness ==
    /\ \E r \in attendance :
          /\ users[r.user].campus_id # events[r.event].campus_id
          /\ r.cross_campus_attendance
    /\ \E r \in attendance :
          /\ users[r.user].campus_id = events[r.event].campus_id
          /\ ~r.cross_campus_attendance

\* C19: an audit log row, once written, is never modified or removed:
\* deleting or updating the attendance record, deleting its campus, and
\* running the setup command with --clear all leave every row as it was
C19_LogRowsNeverChange ==
    [][\A l \in logs : l \in logs']_vars

\* C20: every successful creation of an Attendance record comes with an
\* audit log row with action 'marked' for it: no submission has returned
\* success while the record it created has no such row
C20_CreationIsLogged ==
    \A p \in Procs :
        (sub[p].pc = "done" /\ sub[p].outcome = "created") =>
            \A r \in RowsOf(sub[p].event, sub[p].user) :
                \E l \in logs : l.attendance = r.id /\ l.action = "marked"

\* C21: every administrative override that creates a record or changes a
\* record's status writes, in the same operation, an audit log row with
\* action admin_override whose performed_by is the overriding administrator
C21_OverrideIsLogged ==
    [][\A r \in attendance' \ attendance :
          r.marked_by # Null =>
              \E l \in logs' \ logs :
                  /\ l.attendance = r.id
                  /\ l.action = "admin_override"
                  /\ l.performed_by = r.marked_by]_vars

\* C22: for an event with requires_selfie no attendance is admitted
\* without a selfie, and for an event with requires_signature none without
\* a signature: no submission passes the admission decision and stores a
\* record that lacks the evidence its event requires
C22_EvidenceRequired ==
    [][\A r \in attendance' \ attendance :
          r.marked_by = Null =>
              /\ events[r.event].requires_selfie => r.selfie_image # Null
              /\ events[r.event].requires_signature => r.signature_image # Null]_vars

\* C23: every stored Attendance record has a verification_score that is
\* absent or within [0, 1], and every stored AttendanceValidation a
\* confidence_score within [0, 1]
C23_ScoresInRange ==
    /\ \A r \in attendance : ScoreValidatorsPass(r.verification_score)
    /\ \A v \in validations :
          v.confidence_score # Null /\ ScoreValidatorsPass(v.confidence_score)

\* C29: every saved Attendance record's campus is the campus of its event
C29_RecordCampusIsEventCampus ==
    \A r \in attendance : r.campus_id = events[r.event].campus_id

\* C24: once an event has a window start, every later step (every later
\* Event.save, also one that moved the start time) leaves both window
\* bounds as they were; and a save that found no window start leaves the
\* event with both bounds set
C24_WindowDerivedOnce ==
    [][/\ \A e \in DOMAIN events :
             events[e].attendance_window_start # Null =>
                 /\ events'[e].attendance_window_start = events[e].attendance_window_start
                 /\ events'[e].attendance_window_end = events[e].attendance_window_end
       /\ (saved'.id \in DOMAIN events' /\ saved'.attendance_window_start = Null) =>
             /\ events'[saved'.id].attendance_window_start # Null
             /\ events'[saved'.id].attendance_window_end # Null]_vars

C24_Witness ==
    /\ Len(events) = 1
    /\ events[1].start # EventStart
    /\ saved.id = 1
    /\ saved.attendance_window_start = EventStart - WindowMinutes
    /\ events[1].attendance_window_start = EventStart - WindowMinutes
    /\ events[1].attendance_window_end = EventStart + WindowMinutes

\* C25: an override header that is not an integer, or that names a campus
\* that does not exist, never makes process_request raise: request.campus
\* is the home campus and request.accessible_campuses is what it is
\* without the header
C25_BadOverrideIgnored ==
    \A u \in DOMAIN users :
        \A h \in Headers :
            (h.present /\ (RaisesValueError(h.text) \/ int(h.text) \notin DOMAIN campuses)) =>
                LET r == process_request(u, h)
                IN  /\ r.raised = "none"
                    /\ r.campus = users[u].campus_id
                    /\ r.accessible_campuses = process_request(u, NoHeader).accessible_campuses

C25_Witness ==
    /\ call.op = "process_request"
    /\ call.user # Null
    /\ users[call.user].role = "campus_admin"
    /\ call.header.present
    /\ HeaderTruthy(call.header)
    /\ RaisesValueError(call.header.text)
    /\ call.result.raised = "none"
    /\ call.result.campus = users[call.user].campus_id

\* The header that carries the requested campus id (none for no id)
HeaderOf(campus_id) == IF campus_id = Null THEN NoHeader ELSE Header(str(campus_id))

\* process_request takes the header as the campus of the request
Honoured(u, h) ==
    /\ HeaderTruthy(h)
    /\ users[u].role \in {"campus_admin", "super_admin"}
    /\ ~RaisesValueError(h.text)
    /\ OverrideMatches(u, int(h.text))

\* C26 as stated: after process_request for an authenticated user,
\* request.campus is a member of get_accessible_campus_ids(), for every
\* role and every header
C26_CampusAlwaysAccessible ==
    \A u \in DOMAIN users :
        \A h \in Headers : can_access_campus(u, process_request(u, h).campus)

\* C26 amended: after process_request for an authenticated user,
\* request.campus is the user's home campus or a member of
\* get_accessible_campus_ids(), and it is a member whenever it is taken
\* from the header
C26_CampusHomeOrAccessible ==
    \A u \in DOMAIN users :
        \A h \in Headers :
            LET r == process_request(u, h)
            IN  /\ r.campus = users[u].campus_id \/ can_access_campus(u, r.campus)
                /\ Honoured(u, h) =>
                      r.campus = int(h.text) /\ can_access_campus(u, r.campus)

C26_Witness ==
    /\ call.op = "process_request"
    /\ call.user # Null
    /\ users[call.user].role = "campus_admin"
    /\ users[call.user].accessible_campus_ids # {}
    /\ users[call.user].campus_id \notin users[call.user].accessible_campus_ids
    /\ Honoured(call.user, call.header)
    /\ call.result.campus # users[call.user].campus_id
    /\ can_access_campus(call.user, call.result.campus)

\* C27: the two resolvers agree: for every user, activation state and
\* requested campus id, accessible_to_user filters by the campus that
\* process_request makes request.campus for the same id (no filter at all
\* only for a super-admin who requested no campus)
C27_ResolversAgree ==
    \A u \in DOMAIN users :
        \A campus_id \in RequestedIds :
            LET q == accessible_to_user(u, campus_id)
                r == process_request(u, HeaderOf(campus_id))
            IN  IF q.filtered
                THEN q.campus_id = r.campus
                ELSE users[u].role = "super_admin" /\ ~Truthy(campus_id)

\* C28: whenever process_request honours an override, request.campus is
\* an active campus and is contained in the request.accessible_campuses
\* computed in the same call
C28_HonouredOverrideIsActive ==
    \A u \in DOMAIN users :
        \A h \in Headers :
            Honoured(u, h) =>
                LET r == process_request(u, h)
                IN  /\ campuses[r.campus].is_active
                    /\ r.campus \in r.accessible_campuses

=============================================================================
